---- MODULE Spec2Model ----
(***************************************************************************)
(* Model of the catalog builders of src/src/wic/plugins.py (get_tools_cwl, *)
(* get_yml_paths) and of the schema sanitizer of src/preprocessjson.py     *)
(* (remove_null_types).                                                    *)
(*                                                                         *)
(* Three specifications share the module, one per program:                 *)
(*   SpecYml    get_yml_paths over a registry of (namespace, directory)    *)
(*   SpecTools  get_tools_cwl over a registry of (namespace, directory)    *)
(*   SpecSan    the preprocessjson script, run and re-run on its output    *)
(* Paths are strings; the file system the globs see is the fixture below.  *)
(***************************************************************************)
EXTENDS Integers, Sequences, FiniteSets, TLC

VARIABLES
    \* get_yml_paths
    yml_dirs,        \* utils.read_lines_pairs(yml_dirs_file): sequence of <<namespace, dir>>
    yml_i,           \* position of the `for yml_namespace, yml_dir in yml_dirs` loop
    yml_glob,        \* what glob.glob returned for the pair processed last (its order)
    yml_paths,       \* the per-pair dict of the pair processed last
    yml_paths_hist,  \* history: the per-pair dict of every pair processed, in order
    yml_paths_all,   \* the catalog: namespace -> (stem -> absolute path)
    yml_pc,          \* "loop" | "done"
    yml_ret,         \* the value returned by get_yml_paths (NoCatalog until it returns)
    \* get_tools_cwl
    cwl_dirs,        \* utils.read_lines_pairs(cwl_dirs_file)
    validate_plugins,\* the argument of get_tools_cwl
    cwl_i,           \* position of the `for plugin_ns, cwl_dir in cwl_dirs` loop
    cwl_paths,       \* the part of glob's result for the current pair not yet visited
    tools_cwl,       \* the catalog: StepId -> Tool
    tools_pc,        \* "pair" | "files" | "done" | "error"
    tools_ret,       \* the value returned by get_tools_cwl (NoCatalog until it returns)
    tools_err,       \* the exception that ended the call: [kind, path] (NoError while none)
    visited,         \* history: [ns, path, outcome] of every file the inner loop reached
    opened,          \* history: the paths given to open()/yaml.safe_load, in order
    validated,       \* history: the paths given to validate_cwl, in order
    \* preprocessjson
    schema,          \* the document json.load read from --input
    new_schema,      \* remove_null_types(schema), written to --output
    san_pc           \* "read" | "written" | "rewritten" (the script was run again on its output)

vars_yml == <<yml_dirs, yml_i, yml_glob, yml_paths, yml_paths_hist, yml_paths_all, yml_pc, yml_ret>>
vars_tools == <<cwl_dirs, validate_plugins, cwl_i, cwl_paths, tools_cwl, tools_pc, tools_ret,
                tools_err, visited, opened, validated>>
vars_san == <<schema, new_schema, san_pc>>
vars == <<vars_yml, vars_tools, vars_san>>

---------------------------------------------------------------------------
(* Bounds *)

\* Longest registry (number of lines of yml_dirs.txt / cwl_dirs.txt).
MaxPairs == 2

\* Longest sequence node of a schema tree.
MaxSeqLen == 2

---------------------------------------------------------------------------
(* Strings and paths *)

\* Python's `m in s` for strings.
Contains(s, m) == \E i \in 1..(Len(s) - Len(m) + 1) : SubSeq(s, i, i + Len(m) - 1) = m

\* str.rfind, 1-based; 0 when ch does not occur.
LastIndexOf(s, ch) ==
    LET hits == {i \in 1..Len(s) : SubSeq(s, i, i) = ch}
    IN  IF hits = {} THEN 0 ELSE CHOOSE i \in hits : \A j \in hits : j <= i

\* PurePath.name: the final path component.
PathName(p) == SubSeq(p, LastIndexOf(p, "/") + 1, Len(p))

\* PurePath.stem: the name without its last suffix; a leading or a trailing dot is no suffix.
PathStem(p) ==
    LET n == PathName(p)
        d == LastIndexOf(n, ".")
    IN  IF d > 1 /\ d < Len(n) THEN SubSeq(n, 1, d - 1) ELSE n

\* os.getcwd() of the process.
Cwd == "/w"

\* os.path.abspath on the paths glob yields here (no ".", ".." or empty components):
\* an absolute path is kept, a relative one is joined to the working directory.
AbsPath(p) == IF Len(p) > 0 /\ SubSeq(p, 1, 1) = "/" THEN p ELSE Cwd \o "/" \o p

---------------------------------------------------------------------------
(* Dicts *)

EmptyDict == [k \in {} |-> k]

\* d[k] = v
DictPut(d, k, v) == [x \in (DOMAIN d) \cup {k} |-> IF x = k THEN v ELSE d[x]]

\* d.get(k, default)
DictGet(d, k, default) == IF k \in DOMAIN d THEN d[k] ELSE default

\* {**a, **b}
DictMerge(a, b) == [x \in (DOMAIN a) \cup (DOMAIN b) |-> IF x \in DOMAIN b THEN b[x] ELSE a[x]]

\* Every order in which glob.glob may list the set of matching files.
GlobOrders(files) ==
    {f \in [1..Cardinality(files) -> files] : \A i, j \in DOMAIN f : f[i] = f[j] => i = j}

\* The registries read_lines_pairs may return: up to MaxPairs lines, duplicates allowed.
Registries(namespaces, dirs) ==
    UNION {[1..n -> namespaces \X dirs] : n \in 0..MaxPairs}

\* Nothing returned yet; a returned catalog c is <<c>>.
NoCatalog == <<>>

Namespaces == {"n1", "n2"}

\* No exception was raised.
NoError == [kind |-> "none", path |-> ""]

---------------------------------------------------------------------------
(* get_yml_paths *)

\* The directories a line of yml_dirs.txt may name.
YmlDirs == {"a", "bb", "/r", "c"}

\* glob(str(Path(yml_dir) / '**/*.yml'), recursive=True) as a set.
YmlFiles(dir) ==
    CASE dir = "a"  -> {"a/foo.yml", "a/s/foo.yml", "a/t/foo.yml", "a/foo_inputs.yml"}
      [] dir = "bb" -> {"bb/foo.yml", "bb/sub/deeper/bar.yml", "bb/_inputs/bar.yml"}
      [] dir = "/r" -> {"/r/bar.yml", "/r/x/foo.yml"}
      [] OTHER      -> {}

\* The marker of the autogenerated inputs files.
InputsMarker == "_inputs"

\* One step of sorted(..., key=len, reverse=True): x goes behind every element at
\* least as long (the sort is stable, also under reverse=True).
RECURSIVE InsertByLenDesc(_, _)
InsertByLenDesc(sorted, x) ==
    IF sorted = <<>> THEN <<x>>
    ELSE IF Len(Head(sorted)) >= Len(x)
         THEN <<Head(sorted)>> \o InsertByLenDesc(Tail(sorted), x)
         ELSE <<x>> \o sorted

RECURSIVE SortLenDescFrom(_, _)
SortLenDescFrom(sorted, rest) ==
    IF rest = <<>> THEN sorted
    ELSE SortLenDescFrom(InsertByLenDesc(sorted, Head(rest)), Tail(rest))

\* Mutant of SortedByLenDesc: the paths are processed in the order glob returned them.
SortedNotAtAll(paths) == paths

\* sorted(paths, key=len, reverse=True)
SortedByLenDesc(paths) == SortLenDescFrom(<<>>, paths)

\* The body of `for yml_path_str in yml_paths_sorted`.
YmlPathsStep(d, yml_path_str) ==
    IF ~Contains(yml_path_str, InputsMarker)
    THEN DictPut(d, PathStem(yml_path_str), AbsPath(yml_path_str))
    ELSE d

RECURSIVE YmlPathsFrom(_, _)
YmlPathsFrom(d, paths) ==
    IF paths = <<>> THEN d
    ELSE YmlPathsFrom(YmlPathsStep(d, Head(paths)), Tail(paths))

\* The per-pair dict built from what glob returned.
YmlPathsOf(globbed) == YmlPathsFrom(EmptyDict, SortedByLenDesc(globbed))

\* Mutant of YmlMerge: {**yml_paths, **ns_dict}, the entry of the earlier pair survives.
YmlMergeEarlierWins(all, ns, pair_paths) ==
    DictPut(all, ns, DictMerge(pair_paths, DictGet(all, ns, EmptyDict)))

\* Mutant of YmlMerge: the per-pair dict replaces the namespace's dict.
YmlMergeReplace(all, ns, pair_paths) == DictPut(all, ns, pair_paths)

\* yml_paths_all[yml_namespace] = {**ns_dict, **yml_paths}
YmlMerge(all, ns, pair_paths) ==
    DictPut(all, ns, DictMerge(DictGet(all, ns, EmptyDict), pair_paths))

YmlIdle ==
    /\ yml_dirs = <<>>
    /\ yml_i = 1
    /\ yml_glob = <<>>
    /\ yml_paths = EmptyDict
    /\ yml_paths_hist = <<>>
    /\ yml_paths_all = EmptyDict
    /\ yml_pc = "done"
    /\ yml_ret = NoCatalog

ToolsIdle ==
    /\ cwl_dirs = <<>>
    /\ validate_plugins = FALSE
    /\ cwl_i = 1
    /\ cwl_paths = <<>>
    /\ tools_cwl = EmptyDict
    /\ tools_pc = "done"
    /\ tools_ret = NoCatalog
    /\ tools_err = NoError
    /\ visited = <<>>
    /\ opened = <<>>
    /\ validated = <<>>

SanIdle ==
    /\ schema = <<>>
    /\ new_schema = <<>>
    /\ san_pc = "idle"

InitYml ==
    /\ yml_dirs \in Registries(Namespaces, YmlDirs)
    /\ yml_i = 1
    /\ yml_glob = <<>>
    /\ yml_paths = EmptyDict
    /\ yml_paths_hist = <<>>
    /\ yml_paths_all = EmptyDict
    /\ yml_pc = "loop"
    /\ yml_ret = NoCatalog
    /\ ToolsIdle
    /\ SanIdle

\* One iteration of the loop over the registry: glob, sort, build the per-pair dict, merge.
YmlPair ==
    /\ yml_pc = "loop"
    /\ yml_i <= Len(yml_dirs)
    /\ \E globbed \in GlobOrders(YmlFiles(yml_dirs[yml_i][2])) :
        /\ yml_glob' = globbed
        /\ yml_paths' = YmlPathsOf(globbed)
        /\ yml_paths_hist' = Append(yml_paths_hist, YmlPathsOf(globbed))
        /\ yml_paths_all' = YmlMerge(yml_paths_all, yml_dirs[yml_i][1], YmlPathsOf(globbed))
    /\ yml_i' = yml_i + 1
    /\ UNCHANGED <<yml_dirs, yml_pc, yml_ret>>
    /\ UNCHANGED <<vars_tools, vars_san>>

\* return yml_paths_all
YmlReturn ==
    /\ yml_pc = "loop"
    /\ yml_i > Len(yml_dirs)
    /\ yml_pc' = "done"
    /\ yml_ret' = <<yml_paths_all>>
    /\ UNCHANGED <<yml_dirs, yml_i, yml_glob, yml_paths, yml_paths_hist, yml_paths_all>>
    /\ UNCHANGED <<vars_tools, vars_san>>

NextYml == YmlPair \/ YmlReturn

SpecYml == InitYml /\ [][NextYml]_vars

---------------------------------------------------------------------------
(* get_tools_cwl *)

\* The directories a line of cwl_dirs.txt may name.
CwlDirs == {"p", "q", "v"}

\* glob(str(Path(cwl_dir) / '**/*.cwl'), recursive=True) as a set.
CwlFiles(dir) ==
    CASE dir = "p" -> {"p/align.cwl", "p/sub/align.cwl", "p/biobb_md/align.cwl"}
      [] dir = "q" -> {"q/align.cwl", "q/bad.cwl", "q/empty.cwl"}
      [] dir = "v" -> {"v/align.cwl", "v/inv.cwl"}
      [] OTHER     -> {}

\* yaml.safe_load(f.read()) of a file: a mapping, None (an empty document), or an
\* exception (the text is no YAML).
YamlLoad(path) ==
    CASE path = "p/align.cwl" ->
            [kind |-> "dict", doc |-> [class |-> "CommandLineTool", stdout |-> "old.log"]]
      [] path = "p/sub/align.cwl" ->
            [kind |-> "dict", doc |-> [class |-> "CommandLineTool", baseCommand |-> "aln",
                                       stderr |-> "e.log"]]
      [] path = "q/align.cwl" ->
            [kind |-> "dict", doc |-> [class |-> "CommandLineTool", stdout |-> "align.out",
                                       stderr |-> "align.err"]]
      [] path = "v/align.cwl" ->
            [kind |-> "dict", doc |-> [class |-> "CommandLineTool", baseCommand |-> "valign"]]
      [] path = "v/inv.cwl" ->
            [kind |-> "dict", doc |-> [class |-> "NoSuchClass"]]
      [] path = "q/empty.cwl" -> [kind |-> "none"]
      [] OTHER -> [kind |-> "raises"]

\* Whether validate_cwl(path, skip_schemas) returns; otherwise it raises.
ValidateCwlPasses(path) == path \in {"p/align.cwl", "p/sub/align.cwl", "q/align.cwl", "v/align.cwl"}

\* Mutant of IsDeprecated: the marker is looked for in the stem only.
IsDeprecatedStem(cwl_path_str) == Contains(PathStem(cwl_path_str), "biobb_md")

\* 'biobb_md' in cwl_path_str
IsDeprecated(cwl_path_str) == Contains(cwl_path_str, "biobb_md")

\* StepId(stem, plugin_ns)
StepId(stem, plugin_ns) == [stem |-> stem, plugin_ns |-> plugin_ns]

\* Tool(cwl_path_abs, tool)
Tool(cwl_path_abs, tool) == [run_path |-> cwl_path_abs, cwl |-> tool]

\* Mutant of InjectStreams: dict.setdefault, a key the file sets keeps its value.
InjectStreamsIfAbsent(tool, stem) ==
    DictMerge([stdout |-> stem \o ".out", stderr |-> stem \o ".err"], tool)

\* tool.update({'stdout': f'{stem}.out'}); tool.update({'stderr': f'{stem}.err'})
InjectStreams(tool, stem) ==
    DictPut(DictPut(tool, "stdout", stem \o ".out"), "stderr", stem \o ".err")

\* Mutant of CatalogInsert: an entry already present is kept.
CatalogInsertIfAbsent(catalog, step_id, tool) ==
    IF step_id \in DOMAIN catalog THEN catalog ELSE DictPut(catalog, step_id, tool)

\* tools_cwl[StepId(stem, plugin_ns)] = Tool(cwl_path_abs, tool)
CatalogInsert(catalog, step_id, tool) == DictPut(catalog, step_id, tool)

InitTools ==
    /\ cwl_dirs \in Registries(Namespaces, CwlDirs)
    /\ validate_plugins \in BOOLEAN
    /\ cwl_i = 1
    /\ cwl_paths = <<>>
    /\ tools_cwl = EmptyDict
    /\ tools_pc = "pair"
    /\ tools_ret = NoCatalog
    /\ tools_err = NoError
    /\ visited = <<>>
    /\ opened = <<>>
    /\ validated = <<>>
    /\ YmlIdle
    /\ SanIdle

\* The head of the pair loop: cwl_paths = glob.glob(pattern_cwl, recursive=True).
ToolsGlob ==
    /\ tools_pc = "pair"
    /\ cwl_i <= Len(cwl_dirs)
    /\ cwl_paths' \in GlobOrders(CwlFiles(cwl_dirs[cwl_i][2]))
    /\ tools_pc' = "files"
    /\ UNCHANGED <<cwl_dirs, validate_plugins, cwl_i, tools_cwl, tools_ret, tools_err,
                   visited, opened, validated>>
    /\ UNCHANGED <<vars_yml, vars_san>>

\* The file the inner loop is at, and the namespace of its pair.
CurPath == Head(cwl_paths)
CurNs == cwl_dirs[cwl_i][1]
AtFile == tools_pc = "files" /\ cwl_paths # <<>>

\* The history entry of the current file.
Visit(outcome) == Append(visited, [ns |-> CurNs, path |-> CurPath, outcome |-> outcome])

\* Whether the loop body validates the current file.
Validates == validate_plugins

\* The exception leaves get_tools_cwl: nothing is returned, the locals are dead.
Raise(kind) ==
    /\ tools_pc' = "error"
    /\ tools_err' = [kind |-> kind, path |-> CurPath]
    /\ visited' = Visit("raised")
    /\ UNCHANGED <<cwl_dirs, validate_plugins, cwl_i, cwl_paths, tools_cwl, tools_ret>>
    /\ UNCHANGED <<vars_yml, vars_san>>

\* Loop body: `continue` on a deprecated path.
ToolsSkip ==
    /\ AtFile
    /\ IsDeprecated(CurPath)
    /\ cwl_paths' = Tail(cwl_paths)
    /\ visited' = Visit("skipped")
    /\ UNCHANGED <<cwl_dirs, validate_plugins, cwl_i, tools_cwl, tools_pc, tools_ret,
                   tools_err, opened, validated>>
    /\ UNCHANGED <<vars_yml, vars_san>>

\* Mutant of ToolsLoadError: the exception is swallowed and the loop goes on.
ToolsLoadErrorSwallowed ==
    /\ AtFile
    /\ ~IsDeprecated(CurPath)
    /\ YamlLoad(CurPath).kind = "raises"
    /\ opened' = Append(opened, CurPath)
    /\ cwl_paths' = Tail(cwl_paths)
    /\ visited' = Visit("swallowed")
    /\ UNCHANGED <<cwl_dirs, validate_plugins, cwl_i, tools_cwl, tools_pc, tools_ret,
                   tools_err, validated>>
    /\ UNCHANGED <<vars_yml, vars_san>>

\* Loop body: yaml.safe_load raises.
ToolsLoadError ==
    /\ AtFile
    /\ ~IsDeprecated(CurPath)
    /\ YamlLoad(CurPath).kind = "raises"
    /\ opened' = Append(opened, CurPath)
    /\ UNCHANGED validated
    /\ Raise("YAMLError")

\* Loop body: the file loads, validate_cwl raises.
ToolsValidateError ==
    /\ AtFile
    /\ ~IsDeprecated(CurPath)
    /\ YamlLoad(CurPath).kind # "raises"
    /\ Validates
    /\ ~ValidateCwlPasses(CurPath)
    /\ opened' = Append(opened, CurPath)
    /\ validated' = Append(validated, CurPath)
    /\ Raise("ValidationError")

\* Loop body: the file loads as None and is not rejected by validation; tool.update raises.
ToolsUpdateError ==
    /\ AtFile
    /\ ~IsDeprecated(CurPath)
    /\ YamlLoad(CurPath).kind = "none"
    /\ Validates => ValidateCwlPasses(CurPath)
    /\ opened' = Append(opened, CurPath)
    /\ validated' = IF Validates THEN Append(validated, CurPath) ELSE validated
    /\ Raise("AttributeError")

\* Loop body: the file loads as a mapping, passes validation when asked for, gets
\* its stdout and stderr, and is put in the catalog.
ToolsInsert ==
    /\ AtFile
    /\ ~IsDeprecated(CurPath)
    /\ YamlLoad(CurPath).kind = "dict"
    /\ Validates => ValidateCwlPasses(CurPath)
    /\ opened' = Append(opened, CurPath)
    /\ validated' = IF Validates THEN Append(validated, CurPath) ELSE validated
    /\ tools_cwl' = CatalogInsert(tools_cwl, StepId(PathStem(CurPath), CurNs),
                                  Tool(AbsPath(CurPath),
                                       InjectStreams(YamlLoad(CurPath).doc, PathStem(CurPath))))
    /\ cwl_paths' = Tail(cwl_paths)
    /\ visited' = Visit("inserted")
    /\ UNCHANGED <<cwl_dirs, validate_plugins, cwl_i, tools_pc, tools_ret, tools_err>>
    /\ UNCHANGED <<vars_yml, vars_san>>

\* The inner loop is exhausted: on to the next pair.
ToolsPairEnd ==
    /\ tools_pc = "files"
    /\ cwl_paths = <<>>
    /\ cwl_i' = cwl_i + 1
    /\ tools_pc' = "pair"
    /\ UNCHANGED <<cwl_dirs, validate_plugins, cwl_paths, tools_cwl, tools_ret, tools_err,
                   visited, opened, validated>>
    /\ UNCHANGED <<vars_yml, vars_san>>

\* return tools_cwl
ToolsReturn ==
    /\ tools_pc = "pair"
    /\ cwl_i > Len(cwl_dirs)
    /\ tools_pc' = "done"
    /\ tools_ret' = <<tools_cwl>>
    /\ UNCHANGED <<cwl_dirs, validate_plugins, cwl_i, cwl_paths, tools_cwl, tools_err,
                   visited, opened, validated>>
    /\ UNCHANGED <<vars_yml, vars_san>>

NextTools ==
    \/ ToolsGlob
    \/ ToolsSkip
    \/ ToolsLoadError
    \/ ToolsValidateError
    \/ ToolsUpdateError
    \/ ToolsInsert
    \/ ToolsPairEnd
    \/ ToolsReturn

SpecTools == InitTools /\ [][NextTools]_vars

---------------------------------------------------------------------------
(* preprocessjson: remove_null_types *)

\* The values json.load yields. Python's None is both the JSON null and the
\* "removed" result of remove_null_types.
None == [t |-> "None"]
Str(v) == [t |-> "str", str |-> v]
Num(n) == [t |-> "int", int |-> n]
List(items) == [t |-> "list", items |-> items]
Dict(map) == [t |-> "dict", map |-> map]

\* The list comprehension's filter: `if remove_null_types(item) is not None`.
RECURSIVE KeepNotNone(_)
KeepNotNone(results) ==
    IF results = <<>> THEN <<>>
    ELSE IF Head(results) = None THEN KeepNotNone(Tail(results))
         ELSE <<Head(results)>> \o KeepNotNone(Tail(results))

\* Mutant of remove_null_types: a key whose value was removed is dropped from the dict.
RECURSIVE remove_null_types_dropping_keys(_)
remove_null_types_dropping_keys(node) ==
    IF node.t = "dict"
    THEN IF "type" \in DOMAIN node.map /\ node.map["type"] = List(<<Str("null")>>)
         THEN None
         ELSE LET kept == {k \in DOMAIN node.map :
                              remove_null_types_dropping_keys(node.map[k]) # None}
              IN  Dict([k \in kept |-> remove_null_types_dropping_keys(node.map[k])])
    ELSE IF node.t = "list"
         THEN List(KeepNotNone([i \in DOMAIN node.items |->
                                    remove_null_types_dropping_keys(node.items[i])]))
         ELSE node

RECURSIVE remove_null_types(_)
remove_null_types(node) ==
    IF node.t = "dict"
    THEN IF "type" \in DOMAIN node.map /\ node.map["type"] = List(<<Str("null")>>)
         THEN None
         ELSE Dict([k \in DOMAIN node.map |-> remove_null_types(node.map[k])])
    ELSE IF node.t = "list"
         THEN List(KeepNotNone([i \in DOMAIN node.items |-> remove_null_types(node.items[i])]))
         ELSE node

\* The schema documents the script is run on.
SeqsOver(S) == UNION {[1..n -> S] : n \in 0..MaxSeqLen}
NullLists == {List(s) : s \in SeqsOver({Str("null"), None})}
TypeObjs == {Dict([type |-> v]) : v \in NullLists \cup {Str("string")}}
Elems == {None, Num(5), Str("null")} \cup TypeObjs
ElemLists == {List(s) : s \in SeqsOver(Elems)}
Keys == {"type", "anyOf", "default"}
Objs == {Dict(k :> v) : k \in Keys, v \in Elems \cup ElemLists}
Objs2 == {Dict([type |-> a, default |-> b]) :
              a \in NullLists \cup {Str("string")}, b \in TypeObjs \cup {None}}
Schemas == Elems \cup NullLists \cup ElemLists \cup Objs \cup Objs2

\* schema = json.load(f)
InitSan ==
    /\ schema \in Schemas
    /\ new_schema = <<>>
    /\ san_pc = "read"
    /\ YmlIdle
    /\ ToolsIdle

\* new_schema = remove_null_types(schema); json.dump(new_schema, f, indent=2)
SanWrite ==
    /\ san_pc = "read"
    /\ new_schema' = remove_null_types(schema)
    /\ san_pc' = "written"
    /\ UNCHANGED schema
    /\ UNCHANGED <<vars_yml, vars_tools>>

\* The script run again with the file it wrote as --input.
SanRerun ==
    /\ san_pc = "written"
    /\ schema' = new_schema
    /\ new_schema' = remove_null_types(new_schema)
    /\ san_pc' = "rewritten"
    /\ UNCHANGED <<vars_yml, vars_tools>>

NextSan == SanWrite \/ SanRerun

SpecSan == InitSan /\ [][NextSan]_vars

---------------------------------------------------------------------------
(* Properties of get_tools_cwl *)

AllCwlFiles == UNION {CwlFiles(d) : d \in CwlDirs}

\* The positions of the history at which a file was put in the catalog.
Inserted == {k \in DOMAIN visited : visited[k].outcome = "inserted"}

\* The StepId under which the file at position k of the history is cataloged.
VisitedId(k) == StepId(PathStem(visited[k].path), visited[k].ns)

\* The catalogs to speak of: the one being built and, once returned, the result.
Catalogs == {tools_cwl} \cup {tools_ret[i] : i \in DOMAIN tools_ret}

\* C4: every Tool of the catalog has stdout "<stem>.out" and stderr "<stem>.err"
\* for the stem of its StepId, whatever the file said, and every other key is as
\* loaded from the file at the Tool's path.
C4_StreamsForced ==
    \A catalog \in Catalogs : \A id \in DOMAIN catalog :
        \E f \in AllCwlFiles :
            /\ AbsPath(f) = catalog[id].run_path
            /\ YamlLoad(f).kind = "dict"
            /\ LET doc == YamlLoad(f).doc
                   cwl == catalog[id].cwl
               IN  /\ DOMAIN cwl = (DOMAIN doc) \cup {"stdout", "stderr"}
                   /\ cwl["stdout"] = id.stem \o ".out"
                   /\ cwl["stderr"] = id.stem \o ".err"
                   /\ \A key \in (DOMAIN doc) \ {"stdout", "stderr"} : cwl[key] = doc[key]

\* C4 witness: the returned catalog holds p/align.cwl, whose file sets stdout to
\* "old.log" and sets no stderr, with stdout "align.out" and stderr "align.err".
C4_Witness ==
    /\ tools_pc = "done"
    /\ StepId("align", "n1") \in DOMAIN tools_ret[1]
    /\ tools_ret[1][StepId("align", "n1")].run_path = "/w/p/align.cwl"
    /\ YamlLoad("p/align.cwl").doc["stdout"] = "old.log"
    /\ tools_ret[1][StepId("align", "n1")].cwl["stdout"] = "align.out"
    /\ tools_ret[1][StepId("align", "n1")].cwl["stderr"] = "align.err"
    /\ tools_ret[1][StepId("align", "n1")].cwl["class"] = "CommandLineTool"

\* C8: a file whose path holds the deprecated marker is skipped: never opened nor
\* validated, never the path of a Tool under any StepId, never the file an
\* exception is raised at.
C8_DeprecatedExcluded ==
    /\ \A k \in DOMAIN opened : ~Contains(opened[k], "biobb_md")
    /\ \A k \in DOMAIN validated : ~Contains(validated[k], "biobb_md")
    /\ \A k \in DOMAIN visited :
           Contains(visited[k].path, "biobb_md") => visited[k].outcome = "skipped"
    /\ ~Contains(tools_err.path, "biobb_md")
    /\ \A catalog \in Catalogs : \A id \in DOMAIN catalog :
           \A f \in AllCwlFiles :
               Contains(f, "biobb_md") => catalog[id].run_path # AbsPath(f)

\* C8 witness: the deprecated (and unparsable) p/biobb_md/align.cwl was reached
\* after p/align.cwl of the same stem and namespace was cataloged; the call
\* returned and the entry is still that of p/align.cwl.
C8_Witness ==
    /\ tools_pc = "done"
    /\ \E j, k \in DOMAIN visited :
        /\ j < k
        /\ visited[j].path = "p/align.cwl" /\ visited[j].outcome = "inserted"
        /\ visited[k].path = "p/biobb_md/align.cwl" /\ visited[k].ns = visited[j].ns
        /\ YamlLoad(visited[k].path).kind = "raises"
        /\ Len(visited) = 3 /\ k = 3
        /\ tools_ret[1][VisitedId(j)].run_path = "/w/p/align.cwl"

\* Whether the loop body raises at a file it does not skip.
FileFails(path) ==
    \/ YamlLoad(path).kind # "dict"
    \/ validate_plugins /\ ~ValidateCwlPasses(path)

\* C9: a file that is not excluded and fails to load, or fails validation when
\* validate_plugins is set, ends the call in an error at that file: nothing is
\* returned, the file is not in the catalog, nothing is visited after it. A call
\* only ends in an error at such a file. Every file validated was loaded as
\* a file, and without validate_plugins the validator is never called.
C9_AbortOnError ==
    /\ \A k \in DOMAIN visited :
           (~Contains(visited[k].path, "biobb_md") /\ FileFails(visited[k].path)) =>
               /\ k = Len(visited)
               /\ visited[k].outcome = "raised"
               /\ tools_pc = "error"
               /\ tools_err.path = visited[k].path
               /\ tools_ret = <<>>
               /\ \A id \in DOMAIN tools_cwl :
                      tools_cwl[id].run_path # AbsPath(visited[k].path)
    /\ tools_pc = "error" =>
           /\ tools_ret = <<>>
           /\ visited # <<>>
           /\ visited[Len(visited)].outcome = "raised"
           /\ FileFails(visited[Len(visited)].path)
           /\ opened[Len(opened)] = tools_err.path
    /\ \A k \in DOMAIN visited : visited[k].outcome = "raised" => k = Len(visited) /\ tools_pc = "error"
    /\ ~validate_plugins => validated = <<>>
    /\ validate_plugins =>
           \A k \in Inserted : \E j \in DOMAIN validated : validated[j] = visited[k].path

\* C9 witness: with validation on, v/inv.cwl (loads, fails validation) was reached
\* after an entry was cataloged; the call ended in a ValidationError there.
C9_Witness ==
    /\ tools_pc = "error"
    /\ validate_plugins
    /\ tools_err = [kind |-> "ValidationError", path |-> "v/inv.cwl"]
    /\ DOMAIN tools_cwl # {}
    /\ cwl_i < Len(cwl_dirs)
    /\ tools_ret = <<>>

\* C10: the catalog has an entry for exactly the StepIds of the files cataloged so
\* far, and each entry is the Tool of the file cataloged last under that StepId,
\* in registry order and then discovery order; (stem, namespace) is the key, so
\* the same stem under two namespaces gives two entries.
C10_LastWriteWins ==
    /\ DOMAIN tools_cwl = {VisitedId(k) : k \in Inserted}
    /\ \A id \in DOMAIN tools_cwl :
           \E k \in Inserted :
               /\ VisitedId(k) = id
               /\ \A j \in Inserted : VisitedId(j) = id => j <= k
               /\ tools_cwl[id].run_path = AbsPath(visited[k].path)
               /\ tools_cwl[id].cwl["class"] = YamlLoad(visited[k].path).doc["class"]
               /\ DOMAIN tools_cwl[id].cwl =
                      (DOMAIN YamlLoad(visited[k].path).doc) \cup {"stdout", "stderr"}
    /\ tools_pc = "done" => tools_ret = <<tools_cwl>>

\* C10 witness: three files were cataloged under (align, n1), two of the first pair
\* and one of the second, and the returned entry is that of the one cataloged last.
C10_Witness ==
    /\ tools_pc = "done"
    /\ Cardinality({k \in Inserted : VisitedId(k) = StepId("align", "n1")}) = 3
    /\ \E j, k \in Inserted :
        /\ j < k
        /\ VisitedId(j) = StepId("align", "n1") /\ visited[j].path \in CwlFiles("p")
        /\ VisitedId(k) = StepId("align", "n1") /\ visited[k].path \in CwlFiles("v")
        /\ k = Len(visited)
        /\ tools_ret[1][StepId("align", "n1")].run_path = AbsPath(visited[k].path)
        /\ tools_ret[1][StepId("align", "n1")].run_path # AbsPath(visited[j].path)

---------------------------------------------------------------------------
(* Properties of get_yml_paths *)

\* The files of a directory that the inputs marker does not exclude, with stem s.
YmlKept(dir, s) ==
    {f \in YmlFiles(dir) : ~Contains(f, InputsMarker) /\ PathStem(f) = s}

\* The files of a set strictly shorter than every other file of the set.
StrictlyShortest(files) == {f \in files : \A g \in files \ {f} : Len(f) < Len(g)}

YmlStems == UNION {{PathStem(f) : f \in YmlFiles(d)} : d \in YmlDirs}

\* The pairs processed so far.
YmlDone == 1..Len(yml_paths_hist)

\* The processed pairs of namespace ns whose per-pair dict binds stem s.
YmlBinders(ns, s) ==
    {i \in YmlDone : yml_dirs[i][1] = ns /\ s \in DOMAIN yml_paths_hist[i]}

\* C2: within one pair, a stem that several kept files of different path lengths
\* share is bound to the absolute path of the strictly shortest of them, for every
\* order in which glob listed the files.
C2_ShortestWinsWithinPair ==
    \A i \in YmlDone : \A s \in YmlStems :
        LET kept == YmlKept(yml_dirs[i][2], s)
        IN  (Cardinality(kept) > 1 /\ StrictlyShortest(kept) # {}) =>
                /\ s \in DOMAIN yml_paths_hist[i]
                /\ \A f \in StrictlyShortest(kept) : yml_paths_hist[i][s] = AbsPath(f)

\* C2 witness: glob listed the shortest of three files with stem foo first, and the
\* per-pair dict still binds foo to it.
C2_Witness ==
    /\ Len(yml_glob) = 4
    /\ yml_glob[1] = "a/foo.yml"
    /\ yml_glob[4] = "a/s/foo.yml"
    /\ yml_paths["foo"] = "/w/a/foo.yml"

\* C1 as stated: when exactly two pairs of a namespace bind a stem, to paths of
\* different lengths, the returned catalog binds the stem to the shorter path,
\* whichever of the two pairs comes first.
C1_ShorterWinsAcrossPairs ==
    yml_pc = "done" =>
        \A ns \in Namespaces : \A s \in YmlStems :
            \A i, j \in YmlBinders(ns, s) :
                (/\ i < j
                 /\ YmlBinders(ns, s) = {i, j}
                 /\ Len(yml_paths_hist[i][s]) # Len(yml_paths_hist[j][s]))
                => yml_ret[1][ns][s] =
                       IF Len(yml_paths_hist[i][s]) < Len(yml_paths_hist[j][s])
                       THEN yml_paths_hist[i][s] ELSE yml_paths_hist[j][s]

\* C1 amended: the returned catalog binds the stem to the path of the later of the
\* two pairs, and that path is the strictly shortest kept file with the stem in the
\* later pair's directory when there is one, whatever order glob listed the files in.
C1_LaterPairWins ==
    yml_pc = "done" =>
        \A ns \in Namespaces : \A s \in YmlStems :
            \A i, j \in YmlBinders(ns, s) :
                (/\ i < j
                 /\ YmlBinders(ns, s) = {i, j}
                 /\ Len(yml_paths_hist[i][s]) # Len(yml_paths_hist[j][s]))
                => /\ yml_ret[1][ns][s] = yml_paths_hist[j][s]
                   /\ \A f \in StrictlyShortest(YmlKept(yml_dirs[j][2], s)) :
                          yml_ret[1][ns][s] = AbsPath(f)

\* C1 witness: two pairs of one namespace bind foo, the earlier one to the shorter
\* path, and the returned catalog holds the later pair's longer path.
C1_Witness ==
    /\ yml_pc = "done"
    /\ \E ns \in Namespaces : \E i, j \in YmlBinders(ns, "foo") :
        /\ i < j
        /\ YmlBinders(ns, "foo") = {i, j}
        /\ Len(yml_paths_hist[i]["foo"]) < Len(yml_paths_hist[j]["foo"])
        /\ yml_ret[1][ns]["foo"] = yml_paths_hist[j]["foo"]

\* C3: after any number of pairs, the catalog has a dict for exactly the namespaces
\* of the processed pairs; the dict of a namespace has the union of the keys of the
\* per-pair dicts of its pairs, each stem bound to the path of the last pair of
\* that namespace binding it (so pairs of other namespaces never change it).
C3_NamespaceAccumulation ==
    /\ DOMAIN yml_paths_all = {yml_dirs[i][1] : i \in YmlDone}
    /\ \A ns \in DOMAIN yml_paths_all :
        /\ DOMAIN yml_paths_all[ns] =
               UNION {DOMAIN yml_paths_hist[i] : i \in {k \in YmlDone : yml_dirs[k][1] = ns}}
        /\ \A s \in DOMAIN yml_paths_all[ns] :
               \E i \in YmlBinders(ns, s) :
                   /\ \A k \in YmlBinders(ns, s) : k <= i
                   /\ yml_paths_all[ns][s] = yml_paths_hist[i][s]

\* C3 witness: in one namespace, a stem bound only by the earlier pair is kept, a
\* stem bound by both pairs has the later pair's different path
\* stem bound by both pairs has the later pair's different path.
C3_Witness ==
    \E ns \in Namespaces : \E i, j \in YmlDone : \E s1, s2 \in YmlStems :
        /\ i < j
        /\ yml_dirs[i][1] = ns /\ yml_dirs[j][1] = ns
        /\ s1 \in DOMAIN yml_paths_hist[i] /\ s1 \notin DOMAIN yml_paths_hist[j]
        /\ yml_paths_all[ns][s1] = yml_paths_hist[i][s1]
        /\ s2 \in DOMAIN yml_paths_hist[i] /\ s2 \in DOMAIN yml_paths_hist[j]
        /\ yml_paths_hist[i][s2] # yml_paths_hist[j][s2]
        /\ yml_paths_all[ns][s2] = yml_paths_hist[j][s2]

---------------------------------------------------------------------------
(* Properties of remove_null_types *)

\* A mapping whose "type" value is exactly ["null"].
NullTypeDict(node) ==
    /\ node.t = "dict"
    /\ "type" \in DOMAIN node.map
    /\ node.map["type"].t = "list"
    /\ node.map["type"].items = <<Str("null")>>

\* The script has run on `schema` and `new_schema` is its output.
SanRan == san_pc \in {"written", "rewritten"}

\* C5: sanitizing the output of the sanitizer changes nothing.
C5_Idempotent == san_pc = "rewritten" => new_schema = schema

\* The elements of a sequence the claim C6 retains: all but the null-type mappings.
RECURSIVE DropNullTypeDicts(_)
DropNullTypeDicts(items) ==
    IF items = <<>> THEN <<>>
    ELSE IF NullTypeDict(Head(items)) THEN DropNullTypeDicts(Tail(items))
         ELSE <<Head(items)>> \o DropNullTypeDicts(Tail(items))

\* C6: the result for a sequence has, in order, the sanitized results of exactly
\* the elements that are no null-type mapping; a scalar element, the null scalar
\* included, is returned unchanged.
C6_SequenceKeepsAllButNullTypeDicts ==
    (SanRan /\ schema.t = "list") =>
        /\ new_schema.t = "list"
        /\ LET kept == DropNullTypeDicts(schema.items)
           IN  /\ Len(new_schema.items) = Len(kept)
               /\ \A i \in DOMAIN kept :
                      IF kept[i].t \in {"dict", "list"}
                      THEN new_schema.items[i] = remove_null_types(kept[i])
                      ELSE new_schema.items[i] = kept[i]

\* C7: the result for a mapping whose "type" is not ["null"] is a mapping with the
\* same keys, each bound to the sanitized result of its value: a scalar to itself,
\* a null-type mapping to None (the key stays), any other mapping to a mapping and
\* a sequence to a sequence.
C7_MappingKeepsKeys ==
    (SanRan /\ schema.t = "dict" /\ ~NullTypeDict(schema)) =>
        /\ new_schema.t = "dict"
        /\ DOMAIN new_schema.map = DOMAIN schema.map
        /\ \A k \in DOMAIN schema.map :
               LET v == schema.map[k]
                   r == new_schema.map[k]
               IN  /\ r = remove_null_types(v)
                   /\ NullTypeDict(v) => r = None
                   /\ (v.t = "dict" /\ ~NullTypeDict(v)) =>
                          r.t = "dict" /\ DOMAIN r.map = DOMAIN v.map
                   /\ v.t = "list" => r.t = "list" /\ Len(r.items) <= Len(v.items)
                   /\ v.t \notin {"dict", "list"} => r = v

\* C7 witness: {"default": {"type": ["null"]}} was sanitized to {"default": None}.
C7_Witness ==
    /\ san_pc = "written"
    /\ schema = Dict([default |-> Dict([type |-> List(<<Str("null")>>)])])
    /\ new_schema = Dict([default |-> None])

====
